---- MODULE Spec2Model ----
(***************************************************************************)
(* envdiff: the snapshot store (storage.py), the diff engine (diff.py) and *)
(* the capture orchestration (snapshot.py).                                *)
(*                                                                         *)
(* Python values are tagged records.  A Python str is a sequence of        *)
(* symbols (one-element TLA+ strings); the word root is one symbol.        *)
(***************************************************************************)
EXTENDS Integers, Sequences, FiniteSets, TLC

VARIABLES rows, clock, last, d1, d2, dout, watch, conc

vars == <<rows, clock, last, d1, d2, dout, watch, conc>>

storeVars == <<rows, clock, last>>

diffVars == <<d1, d2, dout>>

procVars == <<watch, conc>>

(* The watch command before it is started, and the store with no client in  *)
(* the middle of a call.                                                    *)
NotWatching ==
    [pc |-> "idle", last_snapshot_data |-> [k |-> "null"],
     current_data |-> [k |-> "null"], saved |-> << >>, n |-> 0,
     exit |-> 0, message |-> ""]

NoClients == << >>

(***************************************************************************)
(* Python values                                                           *)
(***************************************************************************)
PyNone == [k |-> "null"]

PyBool(b) == [k |-> "bool", b |-> b]

PyInt(n) == [k |-> "int", n |-> n]

PyFloat(n) == [k |-> "float", n |-> n]

PyStr(s) == [k |-> "str", s |-> s]

PyList(l) == [k |-> "list", l |-> l]

PyDict(m) == [k |-> "dict", m |-> m]

EmptyDict == PyDict(<< >>)

\* a one-symbol string
W(x) == <<x>>

\* a dict with one entry, and the union of two dicts with disjoint keys
D1(key, v) == PyDict(key :> v)

DU(a, b) == PyDict(a.m @@ b.m)

\* the keys of a dict in emission order (one fixed order per key set)
RECURSIVE KeyOrder(_)
KeyOrder(ks) ==
    IF ks = {} THEN << >>
    ELSE LET key == CHOOSE x \in ks : TRUE
         IN  <<key>> \o KeyOrder(ks \ {key})

(***************************************************************************)
(* json.dumps / json.loads, as token sequences                             *)
(***************************************************************************)
Punct(c) == [t |-> "punct", c |-> c]

Lit(c) == [t |-> "lit", c |-> c]

Num(n, point) == [t |-> "num", n |-> n, point |-> point]

StrTok(text) == [t |-> "string", text |-> text]

\* py_encode_basestring_ascii: a backslash before each quote and backslash
RECURSIVE Escape(_)
Escape(s) ==
    IF s = << >> THEN << >>
    ELSE IF Head(s) \in {"\"", "\\"}
         THEN <<"\\", Head(s)>> \o Escape(Tail(s))
         ELSE <<Head(s)>> \o Escape(Tail(s))

\* the scanner's string decoding: a backslash takes the next symbol literally
RECURSIVE Unescape(_)
Unescape(s) ==
    IF s = << >> THEN << >>
    ELSE IF Head(s) = "\\" /\ Len(s) >= 2
         THEN <<s[2]>> \o Unescape(Tail(Tail(s)))
         ELSE <<Head(s)>> \o Unescape(Tail(s))

\* float.__repr__ always carries a point or exponent; int.__repr__ never does
DumpNumber(v) == Num(v.n, v.k = "float")

RECURSIVE dumps(_)
dumps(v) ==
    LET DumpItems[i \in 0..Len(v.l)] ==
            IF i = 0 THEN << >>
            ELSE DumpItems[i - 1]
                 \o (IF i > 1 THEN <<Punct(",")>> ELSE << >>)
                 \o dumps(v.l[i])
        ord == KeyOrder(DOMAIN v.m)
        DumpMembers[i \in 0..Len(ord)] ==
            IF i = 0 THEN << >>
            ELSE DumpMembers[i - 1]
                 \o (IF i > 1 THEN <<Punct(",")>> ELSE << >>)
                 \o <<StrTok(Escape(ord[i])), Punct(":")>>
                 \o dumps(v.m[ord[i]])
    IN  CASE v.k = "null"  -> <<Lit("null")>>
          [] v.k = "bool"  -> <<Lit(IF v.b THEN "true" ELSE "false")>>
          [] v.k = "int"   -> <<DumpNumber(v)>>
          [] v.k = "float" -> <<DumpNumber(v)>>
          [] v.k = "str"   -> <<StrTok(Escape(v.s))>>
          [] v.k = "list"  -> <<Punct("[")>> \o DumpItems[Len(v.l)] \o <<Punct("]")>>
          [] v.k = "dict"  -> <<Punct("{")>> \o DumpMembers[Len(ord)] \o <<Punct("}")>>

\* the scanner's number rule: a fraction part makes a float, else an int
LoadNumber(tok) == IF tok.point THEN PyFloat(tok.n) ELSE PyInt(tok.n)

\* ParseValue(toks, i) parses one value starting at toks[i]: [v, next]
RECURSIVE ParseValue(_, _)
RECURSIVE ParseItems(_, _, _)
RECURSIVE ParseMembers(_, _, _)
ParseValue(toks, i) ==
    LET tok == toks[i]
    IN  CASE tok.t = "lit" ->
                [v |-> CASE tok.c = "null"  -> PyNone
                         [] tok.c = "true"  -> PyBool(TRUE)
                         [] tok.c = "false" -> PyBool(FALSE),
                 next |-> i + 1]
          [] tok.t = "num" -> [v |-> LoadNumber(tok), next |-> i + 1]
          [] tok.t = "string" -> [v |-> PyStr(Unescape(tok.text)), next |-> i + 1]
          [] tok.t = "punct" /\ tok.c = "[" ->
                IF toks[i + 1] = Punct("]")
                THEN [v |-> PyList(<< >>), next |-> i + 2]
                ELSE ParseItems(toks, i + 1, << >>)
          [] tok.t = "punct" /\ tok.c = "{" ->
                IF toks[i + 1] = Punct("}")
                THEN [v |-> PyDict(<< >>), next |-> i + 2]
                ELSE ParseMembers(toks, i + 1, << >>)

ParseItems(toks, i, acc) ==
    LET item == ParseValue(toks, i)
        acc2 == Append(acc, item.v)
    IN  IF toks[item.next] = Punct(",")
        THEN ParseItems(toks, item.next + 1, acc2)
        ELSE [v |-> PyList(acc2), next |-> item.next + 1]

ParseMembers(toks, i, acc) ==
    LET key == Unescape(toks[i].text)
        val == ParseValue(toks, i + 2)
        acc2 == (key :> val.v) @@ acc
    IN  IF toks[val.next] = Punct(",")
        THEN ParseMembers(toks, val.next + 1, acc2)
        ELSE [v |-> PyDict(acc2), next |-> val.next + 1]

loads(toks) == ParseValue(toks, 1).v

(***************************************************************************)
(* The snapshots table (storage.py).  rows is the table in rowid order;    *)
(* each row is [id, name, timestamp, data], data being the JSON text.      *)
(***************************************************************************)
MaxClock == 2

Ids == {W("a"), W("b")}

Names == {W("a"), W("b"), W("n")}

Lookups == Ids \cup Names

ErrorMarker(msg) == D1(W("error"), PyStr(<<"Collection failed: ", msg>>))

Snap0 == EmptyDict

Snap1 ==
    DU(D1(W("env_vars"), DU(D1(W("A"), PyStr(W("v1"))),
                            D1(<<"q", "\"", "\\">>, PyStr(<<"\\", "\"", "x">>)))),
       D1(W("system"), DU(DU(D1(W("cpu"), PyFloat(10)), D1(W("n"), PyInt(10))),
                          DU(D1(W("ok"), PyBool(TRUE)), D1(W("swap"), PyNone)))))

Snap2 ==
    DU(D1(W("processes"), PyList(<<DU(D1(W("pid"), PyInt(1)), D1(W("name"), PyStr(W("x")))),
                                   PyList(<< >>)>>)),
       D1(W("network"), ErrorMarker("boom")))

DataPool == {Snap0, Snap1, Snap2}

Matches(r, s) == r.id = s \/ r.name = s

\* _init_db: CREATE TABLE IF NOT EXISTS leaves an existing table as it is
init_db(rs) == rs

\* a plain INSERT into a table without the primary key
save_snapshot_insert_only(rs, snapshot_id, name, data, timestamp) ==
    Append(rs, [id |-> snapshot_id, name |-> name,
                timestamp |-> timestamp, data |-> dumps(data)])

\* INSERT OR REPLACE: the row holding the same primary key is deleted and the
\* new row takes the next rowid, i.e. goes to the end of the table
save_snapshot(rs, snapshot_id, name, data, timestamp) ==
    LET data_json == dumps(data)
        kept == SelectSeq(rs, LAMBDA r : r.id # snapshot_id)
    IN  Append(kept, [id |-> snapshot_id, name |-> name,
                      timestamp |-> timestamp, data |-> data_json])

\* WHERE id = ? alone
get_snapshot_by_id_only(rs, s) ==
    LET found == SelectSeq(rs, LAMBDA r : r.id = s)
    IN  IF found = << >> THEN PyNone ELSE loads(found[1].data)

\* no check of the fetched row: a miss gives an empty record, not None
get_snapshot_no_none(rs, s) ==
    LET found == SelectSeq(rs, LAMBDA r : Matches(r, s))
    IN  IF found = << >> THEN EmptyDict ELSE loads(found[1].data)

\* SELECT ... WHERE id = ? OR name = ? scans the table in rowid order (name is
\* not indexed); fetchone takes the first row of the scan
get_snapshot(rs, s) ==
    LET found == SelectSeq(rs, LAMBDA r : Matches(r, s))
    IN  IF found = << >> THEN PyNone ELSE loads(found[1].data)

\* no ORDER BY: the rows in scan order
OrderByNothing(rs) == rs

\* ORDER BY timestamp DESC: rows of equal timestamp keep their scan order
RECURSIVE OrderByTimestampDesc(_)
OrderByTimestampDesc(rs) ==
    IF rs = << >> THEN << >>
    ELSE LET top == CHOOSE i \in 1..Len(rs) :
                        /\ \A j \in 1..Len(rs) : rs[j].timestamp <= rs[i].timestamp
                        /\ \A j \in 1..(i - 1) : rs[j].timestamp < rs[i].timestamp
             rest == [j \in 1..(Len(rs) - 1) |-> IF j < top THEN rs[j] ELSE rs[j + 1]]
         IN  <<rs[top]>> \o OrderByTimestampDesc(rest)

list_snapshots(rs) ==
    LET sorted == OrderByTimestampDesc(rs)
    IN  [i \in 1..Len(sorted) |->
            [id |-> sorted[i].id, name |-> sorted[i].name,
             timestamp |-> sorted[i].timestamp]]

\* DELETE ... WHERE id = ? alone
delete_rows_by_id_only(rs, s) == SelectSeq(rs, LAMBDA r : r.id # s)

delete_rows(rs, s) == SelectSeq(rs, LAMBDA r : ~Matches(r, s))

\* cursor.rowcount > 0
delete_snapshot(rs, s) == Len(rs) - Len(delete_rows(rs, s)) > 0

snapshot_exists(rs, s) == SelectSeq(rs, LAMBDA r : Matches(r, s)) # << >>

\* time.time(): the wall clock, read once per save; two reads within the
\* clock's resolution return the same value
TimeNow == {t \in {clock, clock + 1} : t <= MaxClock}

Save(snapshot_id, name, data) ==
    \E t \in TimeNow :
        /\ clock' = t
        /\ rows' = save_snapshot(rows, snapshot_id, name, data, t)
        /\ last' = [op |-> "save", arg |-> snapshot_id, name |-> name,
                    data |-> data, ret |-> PyNone,
                    replaced |-> \E i \in 1..Len(rows) : rows[i].id = snapshot_id]
        /\ UNCHANGED <<diffVars, procVars>>

Get(s) ==
    /\ last' = [op |-> "get", arg |-> s, ret |-> get_snapshot(rows, s)]
    /\ UNCHANGED <<rows, clock, diffVars, procVars>>

List ==
    /\ last' = [op |-> "list", ret |-> list_snapshots(rows)]
    /\ UNCHANGED <<rows, clock, diffVars, procVars>>

Delete(s) ==
    /\ rows' = delete_rows(rows, s)
    /\ last' = [op |-> "delete", arg |-> s, ret |-> delete_snapshot(rows, s)]
    /\ UNCHANGED <<clock, diffVars, procVars>>

Exists(s) ==
    /\ last' = [op |-> "exists", arg |-> s, ret |-> snapshot_exists(rows, s)]
    /\ UNCHANGED <<rows, clock, diffVars, procVars>>

Reopen ==
    /\ rows' = init_db(rows)
    /\ last' = [op |-> "init"]
    /\ UNCHANGED <<clock, diffVars, procVars>>

Init ==
    /\ rows = << >>
    /\ clock = 0
    /\ last = [op |-> "init"]
    /\ d1 = EmptyDict
    /\ d2 = EmptyDict
    /\ dout = [op |-> "none"]
    /\ watch = NotWatching
    /\ conc = NoClients

Next ==
    \/ \E i \in Ids, n \in Names, d \in DataPool : Save(i, n, d)
    \/ \E s \in Lookups : Get(s)
    \/ List
    \/ \E s \in Lookups : Delete(s)
    \/ \E s \in Lookups : Exists(s)
    \/ Reopen

Spec == Init /\ [][Next]_vars

(***************************************************************************)
(* DeepDiff(t1, t2, ignore_order=True, verbose_level=2), the library call  *)
(* of diff.py.  The result tree is a set of entries                        *)
(* [kind, path, t1, t2]; a path is a sequence of [key |-> k] (a dict key)  *)
(* and [idx |-> i] (a list index, from 0).                                 *)
(***************************************************************************)
NotPresent == [k |-> "notpresent"]

TypeOf(v) == v.k

AtKey(path, key) == Append(path, [key |-> key])

AtIndex(path, i) == Append(path, [idx |-> i])

Entry(kind, path, t1, t2) == [kind |-> kind, path |-> path, t1 |-> t1, t2 |-> t2]

\* DeepHash of an item: the type and value of a scalar; a list hashes as the
\* set of its items' hashes (order and repetition ignored), a dict by key
RECURSIVE DeepHash(_)
DeepHash(v) ==
    CASE v.k = "list" -> [k |-> "list", items |-> {DeepHash(v.l[i]) : i \in 1..Len(v.l)}]
      [] v.k = "dict" -> [k |-> "dict", m |-> [key \in DOMAIN v.m |-> DeepHash(v.m[key])]]
      [] OTHER -> v

RECURSIVE SumOver(_, _)
SumOver(f, dom) ==
    IF dom = {} THEN 0
    ELSE LET x == CHOOSE y \in dom : TRUE
         IN  f[x] + SumOver(f, dom \ {x})

\* DeepHash's count of an item: 1 per scalar, 1 per container, 1 per dict key
RECURSIVE HashCount(_)
HashCount(v) ==
    CASE v.k = "list" -> 1 + SumOver([i \in 1..Len(v.l) |-> HashCount(v.l[i])], 1..Len(v.l))
      [] v.k = "dict" -> 1 + SumOver([key \in DOMAIN v.m |-> 1 + HashCount(v.m[key])], DOMAIN v.m)
      [] OTHER -> 1

\* _get_item_length of a reported value: numbers and strings count 1
RECURSIVE ItemLength(_)
ItemLength(v) ==
    CASE v.k = "list" -> SumOver([i \in 1..Len(v.l) |-> ItemLength(v.l[i])], 1..Len(v.l))
      [] v.k = "dict" -> SumOver([key \in DOMAIN v.m |-> ItemLength(v.m[key])], DOMAIN v.m)
      [] v.k \in {"null", "notpresent"} -> 0
      [] OTHER -> 1

\* a type change reports the two classes, whose attributes are all counted:
\* more than the items of any value compared here
TypeChangeLength == 30

EntryLength(e) ==
    CASE e.kind = "type_changes" -> TypeChangeLength + ItemLength(e.t2)
      [] e.kind \in {"dictionary_item_removed", "iterable_item_removed"} -> ItemLength(e.t1)
      [] OTHER -> ItemLength(e.t2)

RECURSIVE SumLengths(_)
SumLengths(es) ==
    IF es = {} THEN 0
    ELSE LET e == CHOOSE x \in es : TRUE
         IN  EntryLength(e) + SumLengths(es \ {e})

Abs(n) == IF n < 0 THEN -n ELSE n

IsNumber(v) == v.k \in {"int", "float", "bool"}

NumberOf(v) == IF v.k = "bool" THEN (IF v.b THEN 1 ELSE 0) ELSE v.n

\* a distance is a fraction [num, den]; Below(d, c) is d < c
Below(d, c) == d.num * c.den < c.num * d.den

\* cutoff_distance_for_pairs = 0.3, cutoff_intersection_for_pairs = 0.7
CutoffDistance == [num |-> 3, den |-> 10]

CutoffIntersection == [num |-> 7, den |-> 10]

\* _get_numbers_distance with max_ = cutoff_distance_for_pairs
NumbersDistance(a, b) ==
    IF a = b THEN [num |-> 0, den |-> 1]
    ELSE IF a + b = 0 THEN CutoffDistance
    ELSE IF Abs(a - b) >= Abs(a + b) THEN CutoffDistance
    ELSE [num |-> 3 * Abs(a - b), den |-> 10 * Abs(a + b)]

FirstIndex(l, h) == CHOOSE i \in 1..Len(l) :
                        /\ DeepHash(l[i]) = h
                        /\ \A j \in 1..(i - 1) : DeepHash(l[j]) # h

\* most-in-common pairs: the candidate pairs under the cutoff, nearest first
RECURSIVE GreedyPairs(_)
GreedyPairs(cands) ==
    IF cands = {} THEN {}
    ELSE LET best == CHOOSE c \in cands :
                        \A o \in cands : ~Below(o.dist, c.dist)
         IN  {best} \cup GreedyPairs({c \in cands : c.add # best.add /\ c.rem # best.rem})

\* diff_length / (t1_len + t2_len)
LengthRatio(len, total) ==
    IF len = 0 THEN [num |-> 0, den |-> 1] ELSE [num |-> len, den |-> total]

RECURSIVE DiffTree(_, _, _)
RECURSIVE RoughDistance(_, _)
RECURSIVE DiffIterable(_, _, _)

\* _diff: type change first, then by kind
DiffTree(t1, t2, path) ==
    IF TypeOf(t1) # TypeOf(t2)
    THEN {Entry("type_changes", path, t1, t2)}
    ELSE CASE t1.k = "dict" ->
                {Entry("dictionary_item_added", AtKey(path, key), NotPresent, t2.m[key])
                    : key \in DOMAIN t2.m \ DOMAIN t1.m}
                \cup {Entry("dictionary_item_removed", AtKey(path, key), t1.m[key], NotPresent)
                    : key \in DOMAIN t1.m \ DOMAIN t2.m}
                \cup UNION {DiffTree(t1.m[key], t2.m[key], AtKey(path, key))
                    : key \in DOMAIN t1.m \cap DOMAIN t2.m}
           [] t1.k = "list" -> DiffIterable(t1.l, t2.l, path)
           [] OTHER -> IF t1 = t2 THEN {} ELSE {Entry("values_changed", path, t1, t2)}

\* _get_rough_distance of two items
RoughDistance(t1, t2) ==
    IF IsNumber(t1) /\ IsNumber(t2)
    THEN NumbersDistance(NumberOf(t1), NumberOf(t2))
    ELSE LengthRatio(SumLengths(DiffTree(t1, t2, << >>)), HashCount(t1) + HashCount(t2))

HashesOf(l) == {DeepHash(l[i]) : i \in 1..Len(l)}

ItemOf(l, h) == l[FirstIndex(l, h)]

\* whether pairs are looked for: the share of hashes not common to both lists
GetPairs(n_added, n_removed, n1, n2) ==
    ~((n_added + n_removed) * CutoffIntersection.den
        > CutoffIntersection.num * (n1 + n2 + 1))

\* _get_most_in_common_pairs_in_iterables
Candidates(l1, l2, hashes_added, hashes_removed) ==
    {c \in {[add |-> a, rem |-> r, dist |-> RoughDistance(ItemOf(l1, r), ItemOf(l2, a))]
                : a \in hashes_added, r \in hashes_removed}
        : Below(c.dist, CutoffDistance)}

\* an added hash with no pair is an added item, a removed hash with no pair
\* a removed item, and the two items of a pair are diffed at the old index
ReportIterable(l1, l2, path, hashes_added, hashes_removed, pairs) ==
    {Entry("iterable_item_added", AtIndex(path, FirstIndex(l2, h) - 1), NotPresent, ItemOf(l2, h))
        : h \in hashes_added \ {c.add : c \in pairs}}
    \cup {Entry("iterable_item_removed", AtIndex(path, FirstIndex(l1, h) - 1), ItemOf(l1, h), NotPresent)
        : h \in hashes_removed \ {c.rem : c \in pairs}}
    \cup UNION {DiffTree(ItemOf(l1, c.rem), ItemOf(l2, c.add),
                         AtIndex(path, FirstIndex(l1, c.rem) - 1))
        : c \in pairs}

PairsOf(l1, l2, hashes_added, hashes_removed, n1, n2) ==
    IF GetPairs(Cardinality(hashes_added), Cardinality(hashes_removed), n1, n2)
    THEN GreedyPairs(Candidates(l1, l2, hashes_added, hashes_removed))
    ELSE {}

DiffHashes(l1, l2, path, h1, h2) ==
    ReportIterable(l1, l2, path, h2 \ h1, h1 \ h2,
                   PairsOf(l1, l2, h2 \ h1, h1 \ h2, Cardinality(h1), Cardinality(h2)))

\* the lists compared position by position, as with ignore_order = False
DiffIterable_in_order(l1, l2, path) ==
    UNION {DiffTree(l1[i], l2[i], AtIndex(path, i - 1))
            : i \in 1..(IF Len(l1) < Len(l2) THEN Len(l1) ELSE Len(l2))}
    \cup {Entry("iterable_item_added", AtIndex(path, i - 1), NotPresent, l2[i])
            : i \in (Len(l1) + 1)..Len(l2)}
    \cup {Entry("iterable_item_removed", AtIndex(path, i - 1), l1[i], NotPresent)
            : i \in (Len(l2) + 1)..Len(l1)}

\* _diff_iterable_with_deephash, report_repetition = False
DiffIterable(l1, l2, path) == DiffHashes(l1, l2, path, HashesOf(l1), HashesOf(l2))

\* stringify_element: a key holding a single quote is put in double quotes
Stringify(key) ==
    LET has_quote == \E i \in 1..Len(key) : key[i] = "'"
    IN  IF has_quote THEN <<"\"">> \o key \o <<"\"">>
        ELSE <<"'">> \o key \o <<"'">>

\* level.path(): root['key'][index]...
RECURSIVE PathStr(_)
PathStr(path) ==
    IF path = << >> THEN <<"root">>
    ELSE LET el == path[Len(path)]
             front == PathStr(SubSeq(path, 1, Len(path) - 1))
         IN  IF "key" \in DOMAIN el
             THEN front \o <<"[">> \o Stringify(el.key) \o <<"]">>
             ELSE front \o <<"[", ToString(el.idx), "]">>

\* the text result: for each report kind that has entries, path -> entry
TextResult(tree) ==
    [kind \in {e.kind : e \in tree} |->
        [p \in {PathStr(e.path) : e \in {x \in tree : x.kind = kind}} |->
            CHOOSE e \in tree : e.kind = kind /\ PathStr(e.path) = p]]

DeepDiff(t1, t2) == TextResult(DiffTree(t1, t2, << >>))

(***************************************************************************)
(* The diff engine (diff.py)                                               *)
(***************************************************************************)
StartsWith(s, old) == Len(s) >= Len(old) /\ SubSeq(s, 1, Len(old)) = old

\* str.replace(old, ""): every occurrence of old, left to right, is dropped
RECURSIVE Remove(_, _)
Remove(s, old) ==
    IF s = << >> THEN << >>
    ELSE IF StartsWith(s, old)
         THEN Remove(SubSeq(s, Len(old) + 1, Len(s)), old)
         ELSE <<Head(s)>> \o Remove(Tail(s), old)

\* key.replace("root['", "").replace("']", "")
clean_key(key) == Remove(Remove(key, <<"root", "[", "'">>), <<"'", "]">>)

\* path.replace("root['", "").replace("']", "").replace("'", "")
clean_path(path) == Remove(clean_key(path), <<"'">>)

\* one member of the result: cleaned key -> what is reported for it; of two
\* paths that clean to the same key, one assignment overwrites the other
Member(cleaned, values) ==
    [ck \in {cleaned[p] : p \in DOMAIN cleaned} |->
        values[CHOOSE p \in DOMAIN cleaned : cleaned[p] = ck]]

\* the items of a report as a list
RECURSIVE ItemList(_)
ItemList(items) ==
    IF DOMAIN items = {} THEN << >>
    ELSE LET p == CHOOSE q \in DOMAIN items : TRUE
         IN  <<items[p]>> \o ItemList([q \in DOMAIN items \ {p} |-> items[q]])

Old(e) == e.t1

New(e) == e.t2

Changed(e) == [old |-> e.t1, new |-> e.t2]

TypeChanged(e) == [old_type |-> TypeOf(e.t1), new_type |-> TypeOf(e.t2),
                   old_value |-> e.t1, new_value |-> e.t2]

If(cond, f) == IF cond THEN f ELSE << >>

Has(diff, kind) == kind \in DOMAIN diff

CleanKeys(report) == [p \in DOMAIN report |-> clean_key(p)]

CleanPaths(report) == [p \in DOMAIN report |-> clean_path(p)]

News(report) == [p \in DOMAIN report |-> New(report[p])]

Olds(report) == [p \in DOMAIN report |-> Old(report[p])]

Changes(report) == [p \in DOMAIN report |-> Changed(report[p])]

TypeChanges(report) == [p \in DOMAIN report |-> TypeChanged(report[p])]

Added(report) == Member(CleanKeys(report), News(report))

\* the removed keys left as DeepDiff's path strings
Removed_uncleaned(report) == Member([p \in DOMAIN report |-> p], Olds(report))

Removed(report) == Member(CleanKeys(report), Olds(report))

ValuesChanged(report) == Member(CleanPaths(report), Changes(report))

TypesChanged(report) == Member(CleanPaths(report), TypeChanges(report))

\* the six report kinds of the raw diff, renamed and re-keyed
Organize(diff) ==
    IF DOMAIN diff = {} THEN << >>
    ELSE If(Has(diff, "dictionary_item_added"),
            "added" :> Added(diff["dictionary_item_added"]))
      @@ If(Has(diff, "dictionary_item_removed"),
            "removed" :> Removed(diff["dictionary_item_removed"]))
      @@ If(Has(diff, "values_changed"),
            "changed" :> ValuesChanged(diff["values_changed"]))
      @@ If(Has(diff, "type_changes"),
            "type_changed" :> TypesChanged(diff["type_changes"]))
      @@ If(Has(diff, "iterable_item_added"),
            "items_added" :> ItemList(News(diff["iterable_item_added"])))
      @@ If(Has(diff, "iterable_item_removed"),
            "items_removed" :> ItemList(Olds(diff["iterable_item_removed"])))

_compare_collector_data(data1, data2) == Organize(DeepDiff(data1, data2))

\* snapshot.get(collector_name, {})
GetOrEmpty(snapshot, name) ==
    IF name \in DOMAIN snapshot.m THEN snapshot.m[name] ELSE EmptyDict

\* every collector kept, also when its diff is empty
KeepAll(diffs) == diffs

\* if collector_diff: organized_diff[collector_name] = collector_diff
KeepNonEmpty(diffs) == [name \in {n \in DOMAIN diffs : diffs[n] # << >>} |-> diffs[name]]

compare(snapshot1, snapshot2) ==
    KeepNonEmpty([name \in DOMAIN snapshot1.m \cup DOMAIN snapshot2.m |->
        _compare_collector_data(GetOrEmpty(snapshot1, name), GetOrEmpty(snapshot2, name))])

\* the key list without the two kinds of sequence changes
ChangeKinds_no_items == {"added", "removed", "changed", "type_changed"}

ChangeKinds == {"added", "removed", "changed", "type_changed", "items_added", "items_removed"}

\* an empty dict and an empty list are both falsy
Truthy(x) == x # << >>

has_changes(diff) ==
    IF DOMAIN diff = {} THEN FALSE
    ELSE \E name \in DOMAIN diff :
            \E key \in ChangeKinds :
                key \in DOMAIN diff[name] /\ Truthy(diff[name][key])

(***************************************************************************)
(* The diff engine applied to bounded inputs: d1 and d2 are two snapshot   *)
(* records, dout the result of the last call.                              *)
(***************************************************************************)
MaxKeys == 2

MaxSeqLen == 2

Str(x) == PyStr(W(x))

KeyPool == {W("VAR1"), W("VAR2"), <<"x", "'", "]">>}

ValPool == {Str("value1"), Str("value2")}

MapFrags ==
    {PyDict(f) : f \in UNION {[ks -> ValPool] :
                    ks \in {x \in SUBSET KeyPool : Cardinality(x) <= MaxKeys}}}

Proc(pid, mem) == DU(D1(W("pid"), PyInt(pid)), D1(W("mem_mb"), PyInt(mem)))

ElemPool == {Proc(1, 10), Proc(1, 20), Proc(2, 10)}

SeqFrags == {PyList(l) : l \in UNION {[1..n -> ElemPool] : n \in 0..MaxSeqLen}}

ExtraMaps ==
    { D1(W("pip"), D1(W("requests"), Str("1.0"))),
      D1(W("pip"), D1(W("requests"), Str("2.0"))),
      D1(W("cpu_percent"), PyFloat(10)),
      D1(W("cpu_percent"), PyInt(10)),
      D1(W("cpu_percent"), PyFloat(20)),
      ErrorMarker("boom") }

ExtraSeqs == { ErrorMarker("boom"), PyList(<<ErrorMarker("boom")>>) }

EnvVars == W("env_vars")

Processes == W("processes")

RecordPool ==
    {EmptyDict}
        \cup {D1(EnvVars, f) : f \in MapFrags \cup ExtraMaps}
        \cup {D1(Processes, f) : f \in SeqFrags \cup ExtraSeqs}
        \cup {DU(D1(EnvVars, D1(W("TEST"), Str("value"))),
                 D1(Processes, PyList(<<Proc(1, 10)>>)))}

CompareResult(diff) == [op |-> "compare", ret |-> diff, changes |-> has_changes(diff)]

Compare ==
    /\ dout' = CompareResult(compare(d1, d2))
    /\ UNCHANGED <<d1, d2, storeVars, procVars>>

CompareCollector(name) ==
    /\ dout' = [op |-> "collector", name |-> name,
                ret |-> _compare_collector_data(GetOrEmpty(d1, name), GetOrEmpty(d2, name))]
    /\ UNCHANGED <<d1, d2, storeVars, procVars>>

\* the same call with the two fragments exchanged
CompareCollectorSwapped(name) ==
    /\ dout' = [op |-> "swapped", name |-> name,
                ret |-> _compare_collector_data(GetOrEmpty(d2, name), GetOrEmpty(d1, name))]
    /\ UNCHANGED <<d1, d2, storeVars, procVars>>

DiffInit ==
    /\ d1 \in RecordPool
    /\ d2 \in RecordPool
    /\ dout = [op |-> "none"]
    /\ rows = << >>
    /\ clock = 0
    /\ last = [op |-> "init"]
    /\ watch = NotWatching
    /\ conc = NoClients

DiffNext ==
    \/ Compare
    \/ \E name \in {EnvVars, Processes} : CompareCollector(name)
    \/ \E name \in {EnvVars, Processes} : CompareCollectorSwapped(name)

DiffSpec == DiffInit /\ [][DiffNext]_vars

(***************************************************************************)
(* Capture (snapshot.py).  A collector is its class name, a sequence of    *)
(* symbols of which Collector is one, and what its collect() does in the   *)
(* current environment: return data or raise an Exception with a message.  *)
(***************************************************************************)
Returns(data) == [raises |-> FALSE, data |-> data]

Raises(msg) == [raises |-> TRUE, msg |-> msg]

Collector(cls, run) == [cls |-> cls, run |-> run]

Class(word) == <<word, "Collector">>

\* str.lower, symbol by symbol
LowerSymbol(x) ==
    CASE x = "Process" -> "process"
      [] x = "Network" -> "network"
      [] x = "EnvVars" -> "envvars"
      [] x = "Packages" -> "packages"
      [] x = "Files" -> "files"
      [] x = "System" -> "system"
      [] x = "Test" -> "test"
      [] x = "Failing" -> "failing"
      [] x = "Collector" -> "collector"
      [] OTHER -> x

lower(s) == [i \in 1..Len(s) |-> LowerSymbol(s[i])]

\* collector.__class__.__name__.replace('Collector', '').lower()
collector_name(cls) == lower(Remove(cls, <<"Collector">>))

ALL_COLLECTORS ==
    << Collector(Class("Process"), Returns(PyList(<<Proc(1, 10)>>))),
       Collector(Class("Network"), Raises("boom")),
       Collector(Class("EnvVars"), Returns(D1(W("VAR1"), Str("value1")))),
       Collector(Class("Packages"), Returns(D1(W("pip"), D1(W("requests"), Str("1.0"))))),
       Collector(Class("Files"), Returns(PyList(<< >>))),
       Collector(Class("System"), Returns(D1(W("cpu_percent"), PyFloat(10)))) >>

\* self.collectors = collectors or ALL_COLLECTORS
SnapshotEngine(collectors) == IF collectors = << >> THEN ALL_COLLECTORS ELSE collectors

\* what one pass of the loop stores: the data, or the error marker when
\* collect() raised
Collected(c) == IF c.run.raises THEN ErrorMarker(c.run.msg) ELSE c.run.data

\* the loop over the first n collectors: the snapshot dict and the collectors
\* whose collect() was called, in call order
RECURSIVE CaptureLoop(_, _)
CaptureLoop(collectors, n) ==
    IF n = 0 THEN [snapshot |-> << >>, calls |-> << >>]
    ELSE [snapshot |-> (collector_name(collectors[n].cls) :> Collected(collectors[n]))
                          @@ CaptureLoop(collectors, n - 1).snapshot,
          calls |-> Append(CaptureLoop(collectors, n - 1).calls, n)]

FirstRaising(collectors) ==
    CHOOSE i \in 1..Len(collectors) :
        /\ collectors[i].run.raises
        /\ \A j \in 1..(i - 1) : ~collectors[j].run.raises

\* the loop without try / except: the first exception leaves capture
capture_unguarded(collectors) ==
    IF \A i \in 1..Len(collectors) : ~collectors[i].run.raises
    THEN [raised |-> FALSE, ret |-> PyDict(CaptureLoop(collectors, Len(collectors)).snapshot),
          calls |-> CaptureLoop(collectors, Len(collectors)).calls]
    ELSE [raised |-> TRUE, ret |-> PyNone,
          calls |-> [i \in 1..FirstRaising(collectors) |-> i]]

capture(collectors) ==
    [raised |-> FALSE, ret |-> PyDict(CaptureLoop(collectors, Len(collectors)).snapshot),
     calls |-> CaptureLoop(collectors, Len(collectors)).calls]

MaxCollectors == 2

ClassPool == {Class("Process"), Class("Test"), <<"Test">>}

RunPool ==
    { Returns(D1(W("test"), Str("data"))),
      Returns(PyList(<<Proc(1, 10)>>)),
      Raises("Test error") }

CollectorPool == {Collector(cls, run) : cls \in ClassPool, run \in RunPool}

CollectorLists == UNION {[1..n -> CollectorPool] : n \in 0..MaxCollectors}

CaptureResult(collectors) == [op |-> "capture", collectors |-> collectors, out |-> capture(collectors)]

Capture(collectors) ==
    /\ dout' = CaptureResult(SnapshotEngine(collectors))
    /\ UNCHANGED <<d1, d2, storeVars, procVars>>

(***************************************************************************)
(* has_changes applied to bounded Change Sets, also ones compare never     *)
(* returns (empty members, empty Category Diffs, foreign members); with    *)
(* capture, the calls made on their own.                                   *)
(***************************************************************************)
SomeKeys == W("K") :> Str("v")

SomeItems == <<Proc(1, 10)>>

CategoryDiffPool ==
    { << >>,
      "added" :> << >>,
      "added" :> SomeKeys,
      "removed" :> SomeKeys,
      "changed" :> (W("K") :> [old |-> Str("v"), new |-> Str("w")]),
      "type_changed" :> (W("K") :> TypeChanged(Entry("type_changes", << >>, PyInt(1), PyFloat(1)))),
      "items_added" :> SomeItems,
      "items_removed" :> SomeItems,
      ("added" :> << >>) @@ ("items_removed" :> SomeItems),
      ("added" :> << >>) @@ ("removed" :> << >>),
      "other" :> SomeKeys }

ChangeSetPool ==
    UNION {[names -> CategoryDiffPool] : names \in SUBSET {EnvVars, Processes}}

HasChanges(diff) ==
    /\ dout' = [op |-> "has_changes", arg |-> diff, ret |-> has_changes(diff)]
    /\ UNCHANGED <<d1, d2, storeVars, procVars>>

UnitNext ==
    \/ \E diff \in ChangeSetPool : HasChanges(diff)
    \/ \E collectors \in CollectorLists : Capture(collectors)

UnitSpec == Init /\ [][UnitNext]_vars

(***************************************************************************)
(* The compare command (cli.py) on the store.  The command ends the        *)
(* process with sys.exit(1), which except Exception does not catch, or     *)
(* returns, which is exit status 0.                                        *)
(***************************************************************************)
\* the optional argument left out: click passes None, falsy like ''
NoArg == << >>

\* the truth value of a snapshot: None, {} and [] are falsy
IsTruthy(v) ==
    CASE v.k = "null" -> FALSE
      [] v.k = "dict" -> v.m # << >>
      [] v.k = "list" -> v.l # << >>
      [] OTHER -> TRUE

NotFound(snap) ==
    [exit |-> 1, outcome |-> "failure", message |-> <<"Snapshot '", snap, "' not found">>,
     computed |-> FALSE, diff |-> << >>, changes |-> FALSE, second |-> "none"]

\* except Exception as e: print_error, sys.exit(1)
Failed(e) ==
    [exit |-> 1, outcome |-> "failure", message |-> <<"Failed to compare snapshots: ", e>>,
     computed |-> FALSE, diff |-> << >>, changes |-> FALSE, second |-> "none"]

\* the command returns with status 0 whatever the diff
compare_exit_zero(changes) == 0

\* if diff_engine.has_changes(diff): sys.exit(1)
compare_exit(changes) == IF changes THEN 1 ELSE 0

Compared(diff, changes, second) ==
    [exit |-> compare_exit(changes),
     outcome |-> IF changes THEN "differences" ELSE "same",
     message |-> << >>, computed |-> TRUE, diff |-> diff, changes |-> changes,
     second |-> second]

Diffed(diff, second) == Compared(diff, has_changes(diff), second)

\* the second side: the stored snapshot named snap2, or the current state
cli_compare_second(rs, snapshot1_data, snap2, current) ==
    IF snap2 # NoArg
    THEN IF ~IsTruthy(get_snapshot(rs, snap2))
         THEN NotFound(snap2)
         ELSE Diffed(compare(snapshot1_data, get_snapshot(rs, snap2)), "stored")
    ELSE Diffed(compare(snapshot1_data, current), "current")

\* compare(snap1, snap2, storage); available: SnapshotStorage(storage) can open
\* the database; current: what engine.capture() returns now
cli_compare(rs, available, snap1, snap2, current) ==
    IF ~available THEN Failed("unable to open database file")
    ELSE IF ~IsTruthy(get_snapshot(rs, snap1)) THEN NotFound(snap1)
    ELSE cli_compare_second(rs, get_snapshot(rs, snap1), snap2, current)

CurrentPool == {Snap1, Snap2}

CliCompare(available, snap1, snap2, current) ==
    /\ last' = [op |-> "cli_compare", available |-> available, snap1 |-> snap1,
                snap2 |-> snap2, run |-> cli_compare(rows, available, snap1, snap2, current)]
    /\ UNCHANGED <<rows, clock, diffVars, procVars>>

\* the snap command: save_snapshot(snapshot_id, snapshot_id, snapshot_data)
CliSnap(snapshot_id, data) == Save(snapshot_id, snapshot_id, data)

(***************************************************************************)
(* The snap, delete, export and watch commands (cli.py) and the snapshot   *)
(* ids they save under (snapshot.py).  A command that returns ends with    *)
(* exit status 0; sys.exit(1) ends it with 1.                              *)
(***************************************************************************)
\* clock values per second: int(time.time()) and strftime('%Y%m%d-%H%M%S')
\* both drop the fraction of the second
TicksPerSecond == 2

\* int(time.time()), formatted into the id by the f-string
int_time(t) == ToString(t \div TicksPerSecond)

\* datetime.now().strftime("%Y%m%d-%H%M%S"): one text per second
strftime(t) == ToString(t \div TicksPerSecond)

\* generate_snapshot_id(name) at clock value t; None and '' are falsy
generate_snapshot_id(name, t) ==
    IF name # NoArg THEN name ELSE <<"snapshot-", strftime(t)>>

\* capture_named(name): the id, and what capture() returns now
capture_named(name, t, current) ==
    [snapshot_id |-> generate_snapshot_id(name, t), snapshot_data |-> current]

\* the snap command saves under a name that is not the id
snap_save_unnamed(rs, captured, timestamp) ==
    save_snapshot(rs, captured.snapshot_id, W("n"), captured.snapshot_data, timestamp)

\* storage_engine.save_snapshot(snapshot_id, snapshot_id, snapshot_data)
snap_save(rs, captured, timestamp) ==
    save_snapshot(rs, captured.snapshot_id, captured.snapshot_id,
                  captured.snapshot_data, timestamp)

SnapNames == {W("a"), NoArg}

\* snap(name, storage); the id and the timestamp are read from the clock
\* within one tick
SnapCommand(available, name, current) ==
    IF ~available
    THEN /\ last' = [op |-> "snap", name |-> name, arg |-> NoArg, data |-> current,
                     exit |-> 1, message |-> "Failed to create snapshot: "]
         /\ UNCHANGED <<rows, clock, diffVars, procVars>>
    ELSE \E t \in TimeNow :
             /\ clock' = t
             /\ rows' = snap_save(rows, capture_named(name, t, current), t)
             /\ last' = [op |-> "snap", name |-> name,
                         arg |-> generate_snapshot_id(name, t), data |-> current,
                         exit |-> 0, message |-> "created successfully"]
             /\ UNCHANGED <<diffVars, procVars>>

\* the delete command removes without looking the name up first
cli_delete_unchecked(rs, available, name) ==
    IF ~available
    THEN [exit |-> 1, message |-> "Failed to delete snapshot: ", called |-> FALSE, rows |-> rs]
    ELSE [exit |-> 0, message |-> "deleted", called |-> TRUE, rows |-> delete_rows(rs, name)]

\* delete(name, storage) after the confirmation prompt; called: whether
\* delete_snapshot was called
cli_delete(rs, available, name) ==
    IF ~available
    THEN [exit |-> 1, message |-> "Failed to delete snapshot: ", called |-> FALSE, rows |-> rs]
    ELSE IF ~snapshot_exists(rs, name)
    THEN [exit |-> 1, message |-> "not found", called |-> FALSE, rows |-> rs]
    ELSE IF delete_snapshot(rs, name)
    THEN [exit |-> 0, message |-> "deleted", called |-> TRUE, rows |-> delete_rows(rs, name)]
    ELSE [exit |-> 1, message |-> "Failed to delete snapshot '", called |-> TRUE,
          rows |-> delete_rows(rs, name)]

DeleteCommand(available, name) ==
    /\ rows' = cli_delete(rows, available, name).rows
    /\ last' = [op |-> "cli_delete", arg |-> name, available |-> available,
                run |-> cli_delete(rows, available, name)]
    /\ UNCHANGED <<clock, diffVars, procVars>>

\* export(name, storage): the JSON text printed, or the failure
cli_export(rs, available, name) ==
    IF ~available
    THEN [exit |-> 1, message |-> "Failed to export snapshot: ", printed |-> << >>]
    ELSE IF ~IsTruthy(get_snapshot(rs, name))
    THEN [exit |-> 1, message |-> "not found", printed |-> << >>]
    ELSE [exit |-> 0, message |-> "", printed |-> dumps(get_snapshot(rs, name))]

ExportCommand(available, name) ==
    /\ last' = [op |-> "cli_export", arg |-> name, available |-> available,
                run |-> cli_export(rows, available, name)]
    /\ UNCHANGED <<rows, clock, diffVars, procVars>>

\* the commands on a store that the storage API has written as well
CliNext ==
    \/ \E i \in Ids, d \in DataPool : CliSnap(i, d)
    \/ \E s \in Lookups : Delete(s)
    \/ \E available \in BOOLEAN, snap1 \in Lookups, snap2 \in Lookups \cup {NoArg},
          current \in CurrentPool : CliCompare(available, snap1, snap2, current)
    \/ \E available \in BOOLEAN, name \in Lookups : DeleteCommand(available, name)
    \/ \E available \in BOOLEAN, name \in Lookups : ExportCommand(available, name)
    \/ \E name \in SnapNames, current \in CurrentPool : SnapCommand(FALSE, name, current)

CliSpec == Init /\ [][CliNext]_vars

(***************************************************************************)
(* The watch command, one step per pass through the loop.  watch.saved is  *)
(* what this run of the loop has passed to save_snapshot, in order, and    *)
(* watch.current_data the capture of the latest pass.                      *)
(***************************************************************************)
MaxIterations == 2

WatchBaseline == <<"watch-", "baseline">>

Saved(snapshot_id, data) == [id |-> snapshot_id, data |-> data]

Watching(data, current_data, saved, n) ==
    [pc |-> "sleeping", last_snapshot_data |-> data, current_data |-> current_data,
     saved |-> saved, n |-> n, exit |-> 0, message |-> ""]

Stopped(w, exit, message) ==
    [pc |-> "stopped", last_snapshot_data |-> w.last_snapshot_data,
     current_data |-> w.current_data, saved |-> w.saved,
     n |-> w.n, exit |-> exit, message |-> message]

\* the loop keeps the data it compared against although it saved
watch_keep_baseline(last_snapshot_data, current_data) == last_snapshot_data

\* last_snapshot_data = current_data
watch_next_baseline(last_snapshot_data, current_data) == current_data

\* the loop saves every capture
watch_always(diff) == TRUE

\* if diff_engine.has_changes(diff)
watch_detects(diff) == has_changes(diff)

\* the initial snapshot, saved before the loop is entered
WatchStart(available, current) ==
    /\ watch.pc = "idle"
    /\ IF ~available
       THEN /\ watch' = Stopped(NotWatching, 1, "Watch failed: ")
            /\ UNCHANGED <<rows, clock>>
       ELSE \E t \in TimeNow :
                /\ clock' = t
                /\ rows' = snap_save(rows, capture_named(WatchBaseline, t, current), t)
                /\ watch' = Watching(current, current, <<Saved(WatchBaseline, current)>>, 0)
    /\ UNCHANGED <<last, diffVars, conc>>

\* time.sleep(interval) returns; capture, compare, and save on a change
WatchIteration(current) ==
    /\ watch.pc = "sleeping"
    /\ watch.n < MaxIterations
    /\ IF watch_detects(compare(watch.last_snapshot_data, current))
       THEN \E t \in TimeNow :
                /\ clock' = t
                /\ rows' = snap_save(rows,
                               capture_named(<<"watch-", int_time(t)>>, t, current), t)
                /\ watch' = Watching(
                               watch_next_baseline(watch.last_snapshot_data, current),
                               current,
                               Append(watch.saved,
                                      Saved(<<"watch-", int_time(t)>>, current)),
                               watch.n + 1)
       ELSE /\ watch' = Watching(watch.last_snapshot_data, current, watch.saved,
                              watch.n + 1)
            /\ UNCHANGED <<rows, clock>>
    /\ UNCHANGED <<last, diffVars, conc>>

\* KeyboardInterrupt raised in time.sleep: except KeyboardInterrupt
WatchInterrupt ==
    /\ watch.pc = "sleeping"
    /\ watch' = Stopped(watch, 0, "Monitoring stopped")
    /\ UNCHANGED <<rows, clock, last, diffVars, conc>>

WatchNext ==
    \/ \E available \in BOOLEAN, current \in CurrentPool : WatchStart(available, current)
    \/ \E current \in CurrentPool : WatchIteration(current)
    \/ WatchInterrupt

\* the command is run again after it has ended
WatchAgain ==
    /\ watch.pc = "stopped"
    /\ watch' = NotWatching
    /\ UNCHANGED <<rows, clock, last, diffVars, conc>>

WatchRuns == WatchNext \/ WatchAgain

WatchSpec == Init /\ [][WatchRuns]_vars

(***************************************************************************)
(* Clients of one database file, each in its own process.  A call to       *)
(* save_snapshot is three steps: the clock and json.dumps, the INSERT OR   *)
(* REPLACE statement, which opens the transaction and takes SQLite's write *)
(* lock, and the commit, which publishes the row and gives the lock back.  *)
(* A get_snapshot is one SELECT, which reads the committed rows.  conc[p]  *)
(* is the call client p made last.                                         *)
(***************************************************************************)
Clients == {1, 2}

ConcNames(snapshot_id) == {snapshot_id, W("b")}

InFlight(c, p) == p \in DOMAIN c /\ c[p].op = "save" /\ c[p].pc \in {"called", "executed"}

\* the client inside a write transaction, if any
LockHolders(c) == {p \in DOMAIN c : c[p].op = "save" /\ c[p].pc = "executed"}

\* the call of client p replaced by call v; p's earlier call no longer
\* overlaps any call
Called(c, p, v) ==
    [q \in DOMAIN c \cup {p} |->
        IF q = p THEN v
        ELSE IF c[q].op = "save"
        THEN [c[q] EXCEPT !.overlaps =
                 IF InFlight(c, q) THEN @ \cup {p} ELSE @ \ {p}]
        ELSE c[q]]

\* timestamp = time.time(); data_json = json.dumps(data); sqlite3.connect.
\* The racing calls are made within one reading of the clock.
SaveCall(p, snapshot_id, name, data) ==
    /\ ~InFlight(conc, p)
    /\ conc' = Called(conc, p,
                 [op |-> "save", pc |-> "called", id |-> snapshot_id, name |-> name,
                  data |-> data, timestamp |-> clock, pre |-> PyNone,
                  overlaps |-> {q \in Clients \ {p} : InFlight(conc, q)}])
    /\ UNCHANGED <<rows, clock, last, diffVars, watch>>

\* conn.execute(INSERT OR REPLACE ...): waits while another connection
\* holds the write lock
SaveExecute(p) ==
    /\ p \in DOMAIN conc
    /\ conc[p].op = "save" /\ conc[p].pc = "called"
    /\ LockHolders(conc) = {}
    /\ conc' = [conc EXCEPT ![p].pc = "executed",
                            ![p].pre = get_snapshot_by_id_only(rows, conc[p].id)]
    /\ UNCHANGED <<rows, clock, last, diffVars, watch>>

\* the wait for the lock runs out: sqlite3.OperationalError, nothing written
SaveBusy(p) ==
    /\ p \in DOMAIN conc
    /\ conc[p].op = "save" /\ conc[p].pc = "called"
    /\ LockHolders(conc) # {}
    /\ conc' = [conc EXCEPT ![p].pc = "raised"]
    /\ UNCHANGED <<rows, clock, last, diffVars, watch>>

\* conn.commit()
SaveCommit(p) ==
    /\ p \in DOMAIN conc
    /\ conc[p].op = "save" /\ conc[p].pc = "executed"
    /\ rows' = save_snapshot(rows, conc[p].id, conc[p].name, conc[p].data,
                             conc[p].timestamp)
    /\ conc' = [conc EXCEPT ![p].pc = "returned"]
    /\ UNCHANGED <<clock, last, diffVars, watch>>

\* the call of get_snapshot(s) made while a write transaction may be open:
\* racing says one is open on the id s, pre and post are the data under
\* that id before it and the data it writes
GetCalled(c, rs, s) ==
    [op |-> "get", pc |-> "returned", arg |-> s, ret |-> get_snapshot(rs, s),
     racing |-> \E q \in LockHolders(c) : c[q].id = s,
     pre |-> {c[q].pre : q \in {h \in LockHolders(c) : c[h].id = s}},
     post |-> {c[q].data : q \in {h \in LockHolders(c) : c[h].id = s}}]

GetCall(p, s) ==
    /\ ~InFlight(conc, p)
    /\ conc' = Called(conc, p, GetCalled(conc, rows, s))
    /\ UNCHANGED <<rows, clock, last, diffVars, watch>>

ConcNext ==
    \/ \E p \in Clients, i \in Ids, d \in CurrentPool :
          \E n \in ConcNames(i) : SaveCall(p, i, n, d)
    \/ \E p \in Clients : SaveExecute(p)
    \/ \E p \in Clients : SaveBusy(p)
    \/ \E p \in Clients : SaveCommit(p)
    \/ \E p \in Clients, s \in Ids : GetCall(p, s)

ConcSpec == Init /\ [][ConcNext]_vars

(***************************************************************************)
(* A store written only by the snap, watch and delete commands, which can  *)
(* open the database.                                                      *)
(***************************************************************************)
DeleteNames == {W("a"), WatchBaseline}

SnapPool == {Snap1}

CommandNext ==
    \/ \E name \in SnapNames, current \in SnapPool : SnapCommand(TRUE, name, current)
    \/ \E name \in DeleteNames : DeleteCommand(TRUE, name)
    \/ WatchNext

CommandSpec == Init /\ [][CommandNext]_vars

(***************************************************************************)
(* Claims about the diff engine                                            *)
(***************************************************************************)
Frag1 == GetOrEmpty(d1, dout.name)

Frag2 == GetOrEmpty(d2, dout.name)

\* C8: comparing a record with an identical copy gives an empty Change Set
\* with has_changes false, and _compare_collector_data on two identical
\* fragments gives {}.
C8_Identity ==
    d1 = d2 =>
        /\ dout.op = "compare" => dout.ret = << >> /\ dout.changes = FALSE
        /\ dout.op = "collector" => dout.ret = << >>

C8_Witness ==
    /\ d1 = d2
    /\ dout.op = "compare"
    /\ Processes \in DOMAIN d1.m
    /\ d1.m[Processes].k = "list"
    /\ Len(d1.m[Processes].l) = 2

Count(l, x) == Cardinality({i \in 1..Len(l) : l[i] = x})

IsPermutation(l1, l2) ==
    /\ Len(l1) = Len(l2)
    /\ \A i \in 1..Len(l1) : Count(l1, l1[i]) = Count(l2, l1[i])

PermutedAt(name) ==
    /\ name \in DOMAIN d1.m \cap DOMAIN d2.m
    /\ d1.m[name].k = "list"
    /\ d2.m[name].k = "list"
    /\ IsPermutation(d1.m[name].l, d2.m[name].l)

\* C9: when the second record's sequence fragment is a permutation of the
\* first's, the diff of that category has no items_added and no
\* items_removed, and the category is omitted from the Change Set.
C9_PermutationIgnored ==
    /\ dout.op = "compare" =>
          \A name \in DOMAIN d1.m : PermutedAt(name) => name \notin DOMAIN dout.ret
    /\ (dout.op = "collector" /\ PermutedAt(dout.name)) =>
          /\ "items_added" \notin DOMAIN dout.ret
          /\ "items_removed" \notin DOMAIN dout.ret

C9_Witness ==
    /\ dout.op = "compare"
    /\ PermutedAt(Processes)
    /\ d1.m[Processes].l # d2.m[Processes].l

OnlyIn2 == DOMAIN Frag2.m \ DOMAIN Frag1.m

OnlyIn1 == DOMAIN Frag1.m \ DOMAIN Frag2.m

EqualInBoth == {key \in DOMAIN Frag1.m \cap DOMAIN Frag2.m : Frag1.m[key] = Frag2.m[key]}

\* C10: for two mapping fragments, every key present only in the second is in
\* 'added' with its new value, every key present only in the first is in
\* 'removed' with its old value, keys equal in both are not reported, and a
\* member with no entries is absent.
C10_AddedRemoved ==
    (dout.op = "collector" /\ Frag1.k = "dict" /\ Frag2.k = "dict") =>
        /\ OnlyIn2 # {} =>
              /\ "added" \in DOMAIN dout.ret
              /\ \A key \in OnlyIn2 :
                    key \in DOMAIN dout.ret.added /\ dout.ret.added[key] = Frag2.m[key]
        /\ OnlyIn1 # {} =>
              /\ "removed" \in DOMAIN dout.ret
              /\ \A key \in OnlyIn1 :
                    key \in DOMAIN dout.ret.removed /\ dout.ret.removed[key] = Frag1.m[key]
        /\ \A kind \in DOMAIN dout.ret :
              /\ dout.ret[kind] # << >>
              /\ kind \notin {"items_added", "items_removed"} =>
                    \A key \in EqualInBoth : key \notin DOMAIN dout.ret[kind]

Scalars == {"str", "int", "float", "bool", "null"}

SameKindScalars ==
    {key \in DOMAIN Frag1.m \cap DOMAIN Frag2.m :
        Frag1.m[key].k = Frag2.m[key].k /\ Frag1.m[key].k \in Scalars}

ReportedIn(kind, key) == kind \in DOMAIN dout.ret /\ key \in DOMAIN dout.ret[kind]

\* C11: a key of both mapping fragments whose values are unequal scalars of
\* the same kind has a 'changed' entry with old = the first value and new =
\* the second, and no 'added' or 'removed' entry; equal scalars yield nothing.
C11_ScalarChanged ==
    (dout.op = "collector" /\ Frag1.k = "dict" /\ Frag2.k = "dict") =>
        \A key \in SameKindScalars :
            /\ ~ReportedIn("added", key)
            /\ ~ReportedIn("removed", key)
            /\ IF Frag1.m[key] # Frag2.m[key]
               THEN /\ ReportedIn("changed", key)
                    /\ dout.ret.changed[key] = [old |-> Frag1.m[key], new |-> Frag2.m[key]]
               ELSE /\ ~ReportedIn("changed", key)
                    /\ ~ReportedIn("type_changed", key)

KeysOf(ret, kind) == IF kind \in DOMAIN ret THEN DOMAIN ret[kind] ELSE {}

ItemsOf(ret, kind) == IF kind \in DOMAIN ret THEN ret[kind] ELSE << >>

SameItems(l1, l2) ==
    /\ Len(l1) = Len(l2)
    /\ \A i \in 1..Len(l1) : Count(l1, l1[i]) = Count(l2, l1[i])

SameNumber(v1, v2) ==
    /\ {v1.k, v2.k} = {"int", "float"}
    /\ v1.n = v2.n

NumericTwins ==
    {key \in DOMAIN Frag1.m \cap DOMAIN Frag2.m : SameNumber(Frag1.m[key], Frag2.m[key])}

\* the two fragments of a category are mappings that differ in nothing but
\* the representation of equal numbers
OnlyTwinsAt(name) ==
    /\ name \in DOMAIN d1.m \cap DOMAIN d2.m
    /\ d1.m[name].k = "dict" /\ d2.m[name].k = "dict"
    /\ DOMAIN d1.m[name].m = DOMAIN d2.m[name].m
    /\ \A key \in DOMAIN d1.m[name].m :
          \/ d1.m[name].m[key] = d2.m[name].m[key]
          \/ SameNumber(d1.m[name].m[key], d2.m[name].m[key])

\* C13: a key holding an integer in one record and a float of the same value
\* in the other has no 'type_changed' and no 'changed' entry, and a category
\* that differs in nothing else is not among the changes.
C13_NumericEquality ==
    /\ (dout.op = "collector" /\ Frag1.k = "dict" /\ Frag2.k = "dict") =>
          \A key \in NumericTwins :
              ~ReportedIn("type_changed", key) /\ ~ReportedIn("changed", key)
    /\ dout.op = "compare" =>
          \A name \in DOMAIN d1.m : OnlyTwinsAt(name) => name \notin DOMAIN dout.ret

ItemSet(l) == {l[i] : i \in 1..Len(l)}

\* the Category Diff of a category that only one record has: one entry per
\* key of a mapping under keyKind (how the entry's key is written is C10's
\* subject), every item of a sequence under itemKind, nothing else
Wholesale(cdiff, f, keyKind, itemKind) ==
    CASE f.k = "dict" ->
            /\ DOMAIN cdiff = {keyKind}
            /\ Cardinality(DOMAIN cdiff[keyKind]) = Cardinality(DOMAIN f.m)
            /\ {cdiff[keyKind][key] : key \in DOMAIN cdiff[keyKind]}
                  = {f.m[key] : key \in DOMAIN f.m}
      [] f.k = "list" ->
            /\ DOMAIN cdiff = {itemKind}
            /\ ItemSet(cdiff[itemKind]) = ItemSet(f.l)
      [] OTHER -> TRUE

IsEmptyFragment(f) == (f.k = "dict" /\ f.m = << >>) \/ (f.k = "list" /\ f.l = << >>)

\* C14: a category present in one record only is reported as 'added' /
\* 'removed' entries for every key of a mapping and as 'items_added' /
\* 'items_removed' holding every item of a sequence, never as one entry for
\* the whole category such as a type change.
C14_AbsentCategory ==
    dout.op = "compare" =>
        /\ \A name \in DOMAIN d2.m \ DOMAIN d1.m :
              IF IsEmptyFragment(d2.m[name]) THEN name \notin DOMAIN dout.ret
              ELSE /\ name \in DOMAIN dout.ret
                   /\ Wholesale(dout.ret[name], d2.m[name], "added", "items_added")
        /\ \A name \in DOMAIN d1.m \ DOMAIN d2.m :
              IF IsEmptyFragment(d1.m[name]) THEN name \notin DOMAIN dout.ret
              ELSE /\ name \in DOMAIN dout.ret
                   /\ Wholesale(dout.ret[name], d1.m[name], "removed", "items_removed")

NonEmptyMember(cdiff) ==
    \E kind \in {"added", "removed", "changed", "type_changed", "items_added", "items_removed"} :
        kind \in DOMAIN cdiff /\ cdiff[kind] # << >>

\* C15: has_changes is true exactly when some category of the Change Set has
\* a non-empty member among added, removed, changed, type_changed,
\* items_added, items_removed.
C15_HasChanges ==
    dout.op = "has_changes" =>
        dout.ret = (\E name \in DOMAIN dout.arg : NonEmptyMember(dout.arg[name]))

C15_Witness ==
    /\ dout.op = "has_changes"
    /\ dout.ret = TRUE
    /\ EnvVars \in DOMAIN dout.arg /\ ~NonEmptyMember(dout.arg[EnvVars])
    /\ Processes \in DOMAIN dout.arg /\ DOMAIN dout.arg[Processes] = {"added", "items_removed"}

\* C16: every category of the Change Set returned by compare has a non-empty
\* member, so the Change Set is non-empty exactly when has_changes is true.
C16_OnlyChangedCategories ==
    dout.op = "compare" =>
        /\ \A name \in DOMAIN dout.ret : NonEmptyMember(dout.ret[name])
        /\ (dout.ret # << >>) = dout.changes

C16_Witness ==
    /\ dout.op = "compare"
    /\ DOMAIN d1.m = {EnvVars, Processes}
    /\ DOMAIN d2.m = {Processes}
    /\ DOMAIN dout.ret = {EnvVars}
    /\ dout.changes = TRUE

OneFieldChanged(e1, e2) ==
    /\ e1.k = "dict" /\ e2.k = "dict"
    /\ DOMAIN e1.m = DOMAIN e2.m
    /\ Cardinality({key \in DOMAIN e1.m : e1.m[key] # e2.m[key]}) = 1

ChangedElementAt(l1, l2, i) ==
    /\ Len(l1) = Len(l2)
    /\ i \in 1..Len(l1)
    /\ OneFieldChanged(l1[i], l2[i])
    /\ \A j \in 1..Len(l1) : j # i => l1[j] = l2[j]

\* C17: when a sequence-of-mappings fragment differs only in that one element
\* has one field changed, the old element is in items_removed, the new
\* element in items_added, and there is no 'changed' entry.
C17_CoarseSequence ==
    (dout.op = "collector" /\ Frag1.k = "list" /\ Frag2.k = "list") =>
        \A i \in 1..Len(Frag1.l) :
            ChangedElementAt(Frag1.l, Frag2.l, i) =>
                /\ Frag1.l[i] \in ItemSet(ItemsOf(dout.ret, "items_removed"))
                /\ Frag2.l[i] \in ItemSet(ItemsOf(dout.ret, "items_added"))
                /\ "changed" \notin DOMAIN dout.ret

CapturedNames == {collector_name(dout.collectors[i].cls) : i \in 1..Len(dout.collectors)}

DistinctNames == Cardinality(CapturedNames) = Len(dout.collectors)

\* C18: for collectors with distinct names, whichever of them raise, capture
\* does not raise, calls every collector exactly once, and returns one entry
\* per collector: the error marker 'Collection failed: <message>' for a
\* failing collector, the collected data for every other.
C18_FaultIsolation ==
    (dout.op = "capture" /\ DistinctNames) =>
        /\ ~dout.out.raised
        /\ \A i \in 1..Len(dout.collectors) : Count(dout.out.calls, i) = 1
        /\ Len(dout.out.calls) = Len(dout.collectors)
        /\ dout.out.ret.k = "dict"
        /\ DOMAIN dout.out.ret.m = CapturedNames
        /\ \A i \in 1..Len(dout.collectors) :
              dout.out.ret.m[collector_name(dout.collectors[i].cls)] =
                  IF dout.collectors[i].run.raises
                  THEN D1(W("error"), PyStr(<<"Collection failed: ", dout.collectors[i].run.msg>>))
                  ELSE dout.collectors[i].run.data

C18_Witness ==
    /\ dout.op = "capture"
    /\ DistinctNames
    /\ Len(dout.collectors) = 2
    /\ dout.collectors[1].run.raises
    /\ ~dout.collectors[2].run.raises
    /\ Len(dout.out.calls) = 2

(***************************************************************************)
(* Claims about the compare command                                        *)
(***************************************************************************)
Stored(s) == \E i \in 1..Len(rows) : Matches(rows[i], s)

IsNotFoundMessage(m) == Len(m) = 3 /\ m[1] = "Snapshot '" /\ m[3] = "' not found"

\* C19: a run of the compare command that fails and a run that finds
\* differences never end with the same exit status.
C19_DistinctExits ==
    [][(last.op = "cli_compare" /\ last'.op = "cli_compare"
            /\ last.run.outcome = "failure" /\ last'.run.outcome = "differences")
          => last.run.exit # last'.run.exit]_vars

\* C20: the compare command exits 0 when has_changes of the computed diff is
\* false and 1 when it is true, for a stored and for a live second side; when
\* the first or a named second snapshot is not stored it reports 'not found',
\* exits 1 and computes no diff.
C20_ExitStatus ==
    last.op = "cli_compare" =>
        /\ last.run.computed =>
              last.run.exit = (IF has_changes(last.run.diff) THEN 1 ELSE 0)
        /\ (last.available /\ ~Stored(last.snap1)) =>
              /\ last.run.exit = 1
              /\ last.run.message = <<"Snapshot '", last.snap1, "' not found">>
              /\ ~last.run.computed
        /\ (last.available /\ Stored(last.snap1)
                /\ last.snap2 # NoArg /\ ~Stored(last.snap2)) =>
              /\ last.run.exit = 1
              /\ IsNotFoundMessage(last.run.message)
              /\ ~last.run.computed

C20_Witness ==
    /\ last.op = "cli_compare"
    /\ last.run.computed
    /\ last.run.second = "current"
    /\ last.run.exit = 0
    /\ Len(rows) = 2

\* the keys under which both fragments hold a mapping
NestedKeys ==
    {key \in DOMAIN Frag1.m \cap DOMAIN Frag2.m :
        Frag1.m[key].k = "dict" /\ Frag2.m[key].k = "dict"}

Dotted(key, inner) == key \o <<".">> \o inner

\* C26: when the two values at a key are both mappings, their differences
\* are reported under the dotted key-path joining the outer and the inner
\* key (a changed 'requests' under 'pip' at 'pip.requests'), and distinct
\* nested locations are reported under distinct keys.
C26_DottedKeyPath ==
    (dout.op = "collector" /\ Frag1.k = "dict" /\ Frag2.k = "dict") =>
        \A key \in NestedKeys :
            /\ \A inner \in DOMAIN Frag2.m[key].m \ DOMAIN Frag1.m[key].m :
                  ReportedIn("added", Dotted(key, inner))
            /\ \A inner \in DOMAIN Frag1.m[key].m \ DOMAIN Frag2.m[key].m :
                  ReportedIn("removed", Dotted(key, inner))
            /\ \A inner \in DOMAIN Frag1.m[key].m \cap DOMAIN Frag2.m[key].m :
                  (/\ Frag1.m[key].m[inner].k = Frag2.m[key].m[inner].k
                   /\ Frag1.m[key].m[inner].k \in Scalars
                   /\ Frag1.m[key].m[inner] # Frag2.m[key].m[inner]) =>
                      ReportedIn("changed", Dotted(key, inner))

Bijections(n) ==
    {f \in [1..n -> 1..n] : \A i, j \in 1..n : f[i] = f[j] => i = j}

RECURSIVE SameContent(_, _)
\* equal up to the order of sequence elements: mappings with the same keys
\* and values, sequences that are the same multiset, equal scalars
SameContent(a, b) ==
    IF a.k # b.k THEN FALSE
    ELSE CASE a.k = "dict" ->
                  /\ DOMAIN a.m = DOMAIN b.m
                  /\ \A key \in DOMAIN a.m : SameContent(a.m[key], b.m[key])
           [] a.k = "list" ->
                  /\ Len(a.l) = Len(b.l)
                  /\ \E f \in Bijections(Len(a.l)) :
                        \A i \in 1..Len(a.l) : SameContent(a.l[i], b.l[f[i]])
           [] OTHER -> a = b

\* records with the same content in every category, a category that is
\* missing counting as an empty fragment
SameRecords(a, b) ==
    \A name \in DOMAIN a.m \cup DOMAIN b.m :
        SameContent(GetOrEmpty(a, name), GetOrEmpty(b, name))

\* C27: has_changes(compare(A, B)) is false exactly when A and B have equal
\* content up to the order of sequence elements, sequences being multisets:
\* [x] against [x, x] is a change.
C27_Completeness ==
    dout.op = "compare" => (dout.changes <=> ~SameRecords(d1, d2))

\* C30: snapshot_exists(s) is true exactly when get_snapshot(s) is not
\* absent, and the compare and export commands report 'not found' for s only
\* when snapshot_exists(s) is false, also when the stored data is an empty
\* record.
C30_FoundAgrees ==
    /\ \A s \in Lookups : snapshot_exists(rows, s) <=> get_snapshot(rows, s) # PyNone
    /\ (last.op = "cli_compare" /\ IsNotFoundMessage(last.run.message)) =>
          ~snapshot_exists(rows, last.run.message[2])
    /\ (last.op = "cli_export" /\ last.run.message = "not found") =>
          ~snapshot_exists(rows, last.arg)

(***************************************************************************)
(* Claims about the commands                                               *)
(***************************************************************************)
\* the store holds a record under rec's id whose data is rec's data
StoredIntact(rs, rec) ==
    \E i \in 1..Len(rs) : rs[i].id = rec.id /\ loads(rs[i].data) = rec.data

\* C21: a watch run interrupted while it sleeps stops with exit status 0 and
\* the message 'Monitoring stopped', and every record the loop has saved so
\* far is still in the store with its data.
C21_InterruptKeepsRecords ==
    [][(watch.pc = "sleeping" /\ watch'.pc = "stopped") =>
          /\ watch'.exit = 0
          /\ watch'.message = "Monitoring stopped"
          /\ \A i \in 1..Len(watch.saved) : StoredIntact(rows', watch.saved[i])]_vars

LastSaved(w) == w.saved[Len(w.saved)]

WatchPass == watch.pc = "sleeping" /\ watch'.pc = "sleeping"

\* C22: watch saves a baseline first; each pass diffs the fresh capture
\* against the data of the record the loop saved last and saves a new record
\* holding exactly that capture if and only if has_changes is true of the
\* diff; whenever the loop sleeps, the comparison baseline is the data of
\* the record the loop saved most recently.
C22_WatchProtocol ==
    [][/\ watch'.pc = "sleeping" =>
             /\ watch'.saved[1].id = WatchBaseline
             /\ watch'.last_snapshot_data = LastSaved(watch').data
             /\ StoredIntact(rows', LastSaved(watch'))
       /\ WatchPass =>
             IF has_changes(compare(LastSaved(watch).data, watch'.current_data))
             THEN /\ watch'.saved = Append(watch.saved, LastSaved(watch'))
                  /\ LastSaved(watch').data = watch'.current_data
             ELSE /\ watch'.saved = watch.saved
                  /\ rows' = rows]_vars

\* the loop has made a pass that saved and a pass that did not
C22_Witness ==
    /\ watch.pc = "sleeping"
    /\ watch.n = 2
    /\ Len(watch.saved) = 2
    /\ Len(rows) = 2

SavedBy(c) == [id |-> c.id, data |-> c.data]

SnapStep == watch' = watch /\ last'.op = "snap" /\ last'.exit = 0

Unnamed(l) == l.op = "snap" /\ l.exit = 0 /\ l.name = NoArg

\* C24: generate_snapshot_id returns a supplied name unchanged and otherwise
\* a 'snapshot-...' id that no other unnamed capture gets, so that two
\* unnamed snapshots in succession, or two changes detected by watch in
\* succession, leave two records and never overwrite the earlier one.
C24_UniqueIds ==
    [][/\ (SnapStep /\ last'.name # NoArg) => last'.arg = last'.name
       /\ (SnapStep /\ Unnamed(last')) => last'.arg[1] = "snapshot-"
       /\ (SnapStep /\ Unnamed(last') /\ Unnamed(last)) =>
             /\ last'.arg # last.arg
             /\ Len(rows') = Len(rows) + 1
       /\ (WatchPass /\ Len(watch.saved) >= 2 /\ Len(watch'.saved) > Len(watch.saved)) =>
             /\ LastSaved(watch').id # LastSaved(watch).id
             /\ StoredIntact(rows, LastSaved(watch)) =>
                   StoredIntact(rows', LastSaved(watch))]_vars

\* a step of the delete command
DeleteStep == watch' = watch /\ last'.op = "cli_delete"

\* C25: the delete command on a name that matches no record reports 'not
\* found', exits with status 1, never calls delete_snapshot and leaves the
\* store unchanged; on a matching name it deletes and exits with status 0,
\* after which the name no longer exists.
C25_DeleteCommand ==
    [][(DeleteStep /\ last'.available) =>
          IF ~snapshot_exists(rows, last'.arg)
          THEN /\ last'.run.exit = 1
               /\ last'.run.message = "not found"
               /\ ~last'.run.called
               /\ rows' = rows
          ELSE /\ last'.run.exit = 0
               /\ last'.run.called
               /\ ~snapshot_exists(rows', last'.arg)
               /\ rows' # rows]_vars

\* the command deleted one record and left another
C25_Witness ==
    /\ last.op = "cli_delete"
    /\ last.available
    /\ last.run.exit = 0
    /\ Len(rows) >= 1

MatchCount(rs, s) == Cardinality({i \in 1..Len(rs) : Matches(rs[i], s)})

\* C29: in a store written only by the snap, watch and delete commands every
\* record's name equals its id; so a lookup matches at most one record and
\* a delete removes at most one.
C29_NameIsId ==
    [][/\ \A i \in 1..Len(rows') : rows'[i].name = rows'[i].id
       /\ \A i \in 1..Len(rows') : MatchCount(rows', rows'[i].id) = 1
       /\ \A s \in DeleteNames : MatchCount(rows', s) <= 1
       /\ DeleteStep => Len(rows) - Len(rows') <= 1]_vars

\* records saved by snap and by watch, and one of them deleted
C29_Witness ==
    /\ last.op = "cli_delete"
    /\ last.run.exit = 0
    /\ \E i \in 1..Len(rows) : rows[i].id[1] = "snapshot-"
    /\ \E i \in 1..Len(rows) : rows[i].id[1] = "watch-"
    /\ Len(rows) >= 3

(***************************************************************************)
(* Claims about the store                                                  *)
(***************************************************************************)
RowSet == {rows[i] : i \in 1..Len(rows)}

IdMatch(s) == {r \in RowSet : r.id = s}

NameMatch(s) == {r \in RowSet : r.name = s}

\* C1: save_snapshot(id, name, data) immediately followed by get_snapshot(id)
\* returns data equal to the data saved, in any store state.
C1_RoundTrip ==
    [][(last.op = "save" /\ last'.op = "get" /\ last'.arg = last.arg)
          => last'.ret = last.data]_vars

\* C2: when one record has id = s and a different record has name = s,
\* get_snapshot(s) returns the data of the record whose id is s.
C2_IdWins ==
    (last.op = "get" /\ IdMatch(last.arg) # {}
                     /\ NameMatch(last.arg) \ IdMatch(last.arg) # {})
        => \E r \in IdMatch(last.arg) : last.ret = loads(r.data)

\* C3: when no record has id = s but some record has name = s, get_snapshot(s)
\* returns the data of a record named s and snapshot_exists(s) is true.
C3_NameFallback ==
    (last.op \in {"get", "exists"} /\ IdMatch(last.arg) = {} /\ NameMatch(last.arg) # {})
        => /\ last.op = "get" => \E r \in NameMatch(last.arg) : last.ret = loads(r.data)
           /\ last.op = "exists" => last.ret = TRUE

C3_Witness ==
    /\ last.op = "get"
    /\ IdMatch(last.arg) = {}
    /\ NameMatch(last.arg) # {}
    /\ last.ret \in DataPool \ {Snap0}

\* C4: when no record has id or name equal to s, get_snapshot(s) returns None,
\* snapshot_exists(s) returns false, and the store is unchanged.
C4_MissIsAbsent ==
    [][(last'.op \in {"get", "exists"}
            /\ IdMatch(last'.arg) = {} /\ NameMatch(last'.arg) = {})
          => /\ last'.op = "get" => last'.ret = PyNone
             /\ last'.op = "exists" => last'.ret = FALSE
             /\ rows' = rows]_vars

C4_Witness ==
    /\ last.op = "get"
    /\ rows # << >>
    /\ IdMatch(last.arg) = {} /\ NameMatch(last.arg) = {}
    /\ last.ret = PyNone

\* C5: no two stored records share an id, and after save_snapshot(id, n, d)
\* (also when it overwrites) exactly one record has that id, with name n and
\* data d.
C5_SaveOverwrites ==
    /\ \A i, j \in 1..Len(rows) : rows[i].id = rows[j].id => i = j
    /\ last.op = "save" =>
          /\ Cardinality({i \in 1..Len(rows) : rows[i].id = last.arg}) = 1
          /\ \A r \in IdMatch(last.arg) :
                r.name = last.name /\ loads(r.data) = last.data

C5_Witness ==
    /\ last.op = "save"
    /\ last.replaced
    /\ Len(rows) = 2
    /\ last.data # Snap0

Meta(r) == [id |-> r.id, name |-> r.name, timestamp |-> r.timestamp]

ExactlyTheRows(l) ==
    /\ Len(l) = Len(rows)
    /\ \A r \in RowSet : Cardinality({i \in 1..Len(l) : l[i] = Meta(r)}) = 1

PositionOf(l, r) == CHOOSE i \in 1..Len(l) : l[i] = Meta(r)

\* C6 as stated: list_snapshots returns exactly one entry per stored record,
\* and a record saved later than another appears before it.
C6_LaterSavedFirst ==
    last.op = "list" =>
        /\ ExactlyTheRows(last.ret)
        /\ \A i, j \in 1..Len(rows) :
              i < j => PositionOf(last.ret, rows[j]) < PositionOf(last.ret, rows[i])

\* C6 amended: list_snapshots returns exactly one entry per stored record,
\* in order of non-increasing timestamp, so a record whose timestamp is
\* strictly greater than another's appears before it.
C6_TimestampDescending ==
    last.op = "list" =>
        /\ ExactlyTheRows(last.ret)
        /\ \A i, j \in 1..Len(last.ret) :
              i < j => last.ret[i].timestamp >= last.ret[j].timestamp
        /\ \A r, q \in RowSet :
              r.timestamp > q.timestamp
                  => PositionOf(last.ret, r) < PositionOf(last.ret, q)

C6_Witness ==
    /\ last.op = "list"
    /\ Len(last.ret) = 2
    /\ rows[1].timestamp < rows[2].timestamp
    /\ last.ret[1].id = rows[2].id

\* C7: delete_snapshot(s) returns true exactly when some record had id or name
\* equal to s before the call; afterwards snapshot_exists(s) is false and
\* get_snapshot(s) is None.
C7_Delete ==
    [][last'.op = "delete"
          => /\ last'.ret = (IdMatch(last'.arg) \cup NameMatch(last'.arg) # {})
             /\ ~snapshot_exists(rows', last'.arg)
             /\ get_snapshot(rows', last'.arg) = PyNone]_vars

C7_Witness ==
    /\ last.op = "delete"
    /\ last.ret = TRUE
    /\ rows # << >>

RowsOf(rs) == {rs[i] : i \in 1..Len(rs)}

\* C28: get_snapshot, list_snapshots, snapshot_exists and re-initialising the
\* store change no stored record; save_snapshot(id, ...) leaves the name,
\* timestamp and data of every record with another id unchanged;
\* delete_snapshot(s) removes exactly the records whose id or name is s and
\* leaves every other record unchanged.
C28_Frame ==
    [][/\ last'.op \in {"get", "list", "exists", "init"} => rows' = rows
       /\ last'.op = "save" =>
             /\ \A r \in RowsOf(rows) : r.id # last'.arg => r \in RowsOf(rows')
             /\ \A r \in RowsOf(rows') : r.id # last'.arg => r \in RowsOf(rows)
       /\ last'.op = "delete" =>
             RowsOf(rows') = {r \in RowsOf(rows) : ~Matches(r, last'.arg)}]_vars

\* a delete removed a record and left one that does not match
C28_Witness ==
    /\ last.op = "delete"
    /\ last.ret
    /\ Len(rows) = 1
    /\ rows[1].id # last.arg
    /\ rows[1].name # last.arg

====
